---- MODULE Spec2Model ----
(***************************************************************************)
(* The CanSat emitter node of src/main.py: a single-threaded loop that     *)
(* samples the BME280, encodes one text payload, hands it to the RFM69     *)
(* transport with acknowledgment, records the RSSI of the acknowledgment   *)
(* and advances the sequence counter.                                      *)
(*                                                                         *)
(* Numbers are fixed point: temperatures, pressures, humidities and RSSI   *)
(* are integers in thousandths, the altitude is in millionths.  Text is a  *)
(* sequence of one-character strings.                                      *)
(* An unbound Python name, and the value None, is the empty tuple; a bound *)
(* value v is the one-element tuple <<v>>.                                 *)
(***************************************************************************)
EXTENDS Integers, Sequences, FiniteSets, TLC

VARIABLES pc, led, counter, last_rssi,
          sensor_all, sensor_temperature, sensor_pressure, sensor_humidity,
          altitude, msg, ack, out,
          rfm_rssi, attempts_remaining, attempts, result,
          logs_files, loggers, calls

vars == <<pc, led, counter, last_rssi,
          sensor_all, sensor_temperature, sensor_pressure, sensor_humidity,
          altitude, msg, ack, out,
          rfm_rssi, attempts_remaining, attempts, result,
          logs_files, loggers, calls>>

(* ---------------------------------------------------------------------- *)
(* Bounds and program constants                                           *)
(* ---------------------------------------------------------------------- *)

\* Number of loop iterations the model explores.
MaxCycles == 2

\* ack_retries set one too low.
ack_retries_minus_one == 2 - 1

\* ack_retries set one too high.
ack_retries_plus_one == 2 + 1

\* rfm.ack_retries = 2
ack_retries == 2

\* baseline = 1032.0 hPa, in thousandths
baseline == 1032000

None == <<>>
Some(v) == <<v>>
Get(o) == o[1]

\* What bmp.raw_values can return on one read: <<temperature, pressure, humidity>>.
\* The two readings differ in temperature and pressure.
Readings == { <<23500, 1013250, 61237>>, <<-4256, 1033120, 61237>> }

\* What rfm.rssi can hold after an acknowledgment.
RssiValues == { -42300, -90500 }

(* ---------------------------------------------------------------------- *)
(* Python's % formatting                                                  *)
(* ---------------------------------------------------------------------- *)

DigitChar == <<"0", "1", "2", "3", "4", "5", "6", "7", "8", "9">>

RECURSIVE Pow10(_)
Pow10(n) == IF n = 0 THEN 1 ELSE 10 * Pow10(n - 1)

Abs(x) == IF x < 0 THEN -x ELSE x

\* Decimal digits of a natural number, most significant first.
RECURSIVE NatDigits(_)
NatDigits(n) ==
    IF n < 10 THEN <<DigitChar[n + 1]>>
    ELSE Append(NatDigits(n \div 10), DigitChar[(n % 10) + 1])

RECURSIVE Repeat(_, _)
Repeat(c, n) == IF n <= 0 THEN <<>> ELSE <<c>> \o Repeat(c, n - 1)

\* Right-justify s in a field of at least w characters.
PadLeft(s, c, w) == Repeat(c, w - Len(s)) \o s

\* a / 10^k rounded to the nearest integer, ties to even (a >= 0).  No value of
\* Readings or RssiValues falls on a tie, where binary floats could round either way.
RoundDiv(a, k) ==
    LET m == Pow10(k)
        q == a \div m
        r == a % m
    IN  IF 2 * r > m \/ (2 * r = m /\ q % 2 = 1) THEN q + 1 ELSE q

\* "%d" % n
FormatD(n) == (IF n < 0 THEN <<"-">> ELSE <<>>) \o NatDigits(Abs(n))

\* "%<w>.<d>f" % x, where x = v / 10^e.
FormatF(v, e, w, d) ==
    LET scaled == IF d >= e THEN Abs(v) * Pow10(d - e) ELSE RoundDiv(Abs(v), e - d)
        ip     == scaled \div Pow10(d)
        fp     == scaled % Pow10(d)
        body   == NatDigits(ip) \o <<".">> \o PadLeft(NatDigits(fp), "0", d)
        signed == (IF v < 0 THEN <<"-">> ELSE <<>>) \o body
    IN  PadLeft(signed, " ", w)

Sep == <<" ", " ">>

\* Encode that formats last_rssi as it is, None included.
EncodeNoneToken(seq, rssi, t, p, h, alt) ==
    <<" ">> \o FormatD(seq)
        \o Sep \o (IF rssi = None THEN <<"N", "o", "n", "e">> ELSE FormatF(Get(rssi), 3, 3, 1))
        \o Sep \o FormatF(t, 3, 2, 2)
        \o Sep \o FormatF(p, 3, 4, 2)
        \o Sep \o FormatF(h, 3, 2, 2)
        \o Sep \o FormatF(alt, 6, 3, 6)

\* msg = " %d  %3.1f  %2.2f  %4.2f  %2.2f  %3.6f" % (counter, 0 if last_rssi is None
\*        else last_rssi, sensor_temperature, sensor_pressure, sensor_humidity, altitude)
Encode(seq, rssi, t, p, h, alt) ==
    <<" ">> \o FormatD(seq)
        \o Sep \o FormatF(IF rssi = None THEN 0 ELSE Get(rssi), 3, 3, 1)
        \o Sep \o FormatF(t, 3, 2, 2)
        \o Sep \o FormatF(p, 3, 4, 2)
        \o Sep \o FormatF(h, 3, 2, 2)
        \o Sep \o FormatF(alt, 6, 3, 6)

\* altitude = (baseline - sensor_pressure)*8.3, in millionths
Altitude(p) == (baseline - p) * 8300

(* ---------------------------------------------------------------------- *)
(* Initial state: the module-level assignments before the loop            *)
(* ---------------------------------------------------------------------- *)

MainInit ==
    /\ pc = "loop"
    /\ led = FALSE
    /\ counter = 1
    /\ last_rssi = None
    /\ sensor_all = None
    /\ sensor_temperature = None
    /\ sensor_pressure = None
    /\ sensor_humidity = None
    /\ altitude = None
    /\ msg = None
    /\ ack = None
    /\ out = <<>>
    /\ rfm_rssi = None
    /\ attempts_remaining = 0
    /\ attempts = <<>>
    /\ result = None

main_locals == <<sensor_all, sensor_temperature, sensor_pressure, sensor_humidity,
                 altitude, msg, ack>>
rfm_state == <<rfm_rssi, attempts_remaining, attempts, result>>

\* The logs_files directory, the Logger objects and the calls made on them
\* (src/test_tobias.py), which src/main.py never touches.
logger_state == <<logs_files, loggers, calls>>

\* No Logger is constructed and the directory is empty.
LoggerUnused ==
    /\ logs_files = <<>>
    /\ loggers = <<>>
    /\ calls = <<>>

\* The state when the loop of src/main.py is entered.
Init == MainInit /\ LoggerUnused

(* ---------------------------------------------------------------------- *)
(* The loop of src/main.py                                                *)
(* ---------------------------------------------------------------------- *)

\* while True: led.toggle()
LedToggle ==
    /\ pc = "loop"
    /\ counter <= MaxCycles
    /\ led' = ~led
    /\ pc' = "read_all"
    /\ UNCHANGED logger_state
    /\ UNCHANGED <<counter, last_rssi, main_locals, out, rfm_state>>

\* sensor_all = bmp.raw_values
ReadAll ==
    /\ pc = "read_all"
    /\ \E r \in Readings : sensor_all' = r
    /\ pc' = "read_temperature"
    /\ UNCHANGED logger_state
    /\ UNCHANGED <<led, counter, last_rssi, sensor_temperature, sensor_pressure,
                   sensor_humidity, altitude, msg, ack, out, rfm_state>>

\* sensor_temperature = bmp.raw_values[0]
ReadTemperature ==
    /\ pc = "read_temperature"
    /\ \E r \in Readings : sensor_temperature' = Some(r[1])
    /\ pc' = "read_pressure"
    /\ UNCHANGED logger_state
    /\ UNCHANGED <<led, counter, last_rssi, sensor_all, sensor_pressure,
                   sensor_humidity, altitude, msg, ack, out, rfm_state>>

\* sensor_pressure = bmp.raw_values[1]
ReadPressure ==
    /\ pc = "read_pressure"
    /\ \E r \in Readings : sensor_pressure' = Some(r[2])
    /\ pc' = "read_humidity"
    /\ UNCHANGED logger_state
    /\ UNCHANGED <<led, counter, last_rssi, sensor_all, sensor_temperature,
                   sensor_humidity, altitude, msg, ack, out, rfm_state>>

\* sensor_humidity = bmp.raw_values[2]
ReadHumidity ==
    /\ pc = "read_humidity"
    /\ \E r \in Readings : sensor_humidity' = Some(r[3])
    /\ pc' = "altitude"
    /\ UNCHANGED logger_state
    /\ UNCHANGED <<led, counter, last_rssi, sensor_all, sensor_temperature,
                   sensor_pressure, altitude, msg, ack, out, rfm_state>>

\* altitude = (baseline - sensor_pressure)*8.3
ComputeAltitude ==
    /\ pc = "altitude"
    /\ altitude' = Some(Altitude(Get(sensor_pressure)))
    /\ pc' = "encode"
    /\ UNCHANGED logger_state
    /\ UNCHANGED <<led, counter, last_rssi, sensor_all, sensor_temperature,
                   sensor_pressure, sensor_humidity, msg, ack, out, rfm_state>>

\* msg = "..." % (...)
EncodeMsg ==
    /\ pc = "encode"
    /\ msg' = Encode(counter, last_rssi, Get(sensor_temperature), Get(sensor_pressure),
                     Get(sensor_humidity), Get(altitude))
    /\ pc' = "print"
    /\ UNCHANGED logger_state
    /\ UNCHANGED <<led, counter, last_rssi, sensor_all, sensor_temperature,
                   sensor_pressure, sensor_humidity, altitude, ack, out, rfm_state>>

\* print("Send:", msg)
PrintSend ==
    /\ pc = "print"
    /\ out' = Append(out, [tag |-> "Send:", text |-> msg])
    /\ pc' = "send"
    /\ UNCHANGED logger_state
    /\ UNCHANGED <<led, counter, last_rssi, main_locals, rfm_state>>

(* ---------------------------------------------------------------------- *)
(* rfm.send_with_ack: the delivery algorithm of the transport              *)
(* ---------------------------------------------------------------------- *)

\* The outcome of the last attempt of the current delivery.
LastOutcome == IF attempts = <<>> THEN "None" ELSE attempts[Len(attempts)].outcome

SetLastOutcome(o) == [attempts EXCEPT ![Len(attempts)].outcome = o]

\* ack = rfm.send_with_ack(bytes(msg, "utf-8")): the call is entered with
\* attempts_remaining = max_retries + 1 and no attempt made yet.
SendWithAck ==
    /\ pc = "send"
    /\ attempts_remaining' = ack_retries + 1
    /\ attempts' = <<>>
    /\ pc' = "transmit"
    /\ UNCHANGED logger_state
    /\ UNCHANGED <<led, counter, last_rssi, main_locals, out, rfm_rssi, result>>

\* Transmit that encodes the payload anew for each attempt, with the sequence number
\* moved on by the attempts made.
TransmitReencoded ==
    /\ pc = "transmit"
    /\ attempts' = Append(attempts,
                      [payload |-> Encode(counter + Len(attempts), last_rssi,
                                          Get(sensor_temperature), Get(sensor_pressure),
                                          Get(sensor_humidity), Get(altitude)),
                       outcome |-> "Pending"])
    /\ pc' = "await"
    /\ UNCHANGED logger_state
    /\ UNCHANGED <<led, counter, last_rssi, main_locals, out, rfm_rssi,
                   attempts_remaining, result>>

\* One transmission of the payload, requesting an acknowledgment.
Transmit ==
    /\ pc = "transmit"
    /\ attempts' = Append(attempts, [payload |-> msg, outcome |-> "Pending"])
    /\ pc' = "await"
    /\ UNCHANGED logger_state
    /\ UNCHANGED <<led, counter, last_rssi, main_locals, out, rfm_rssi,
                   attempts_remaining, result>>

\* The send operation itself fails (hardware not responding): an exception is raised.
TransportFault ==
    /\ pc = "transmit"
    /\ attempts' = Append(attempts, [payload |-> msg, outcome |-> "Fault"])
    /\ pc' = "raise"
    /\ UNCHANGED logger_state
    /\ UNCHANGED <<led, counter, last_rssi, main_locals, out, rfm_rssi,
                   attempts_remaining, result>>

\* AckArrives that goes on sending while attempts remain.
AckArrivesKeepsSending ==
    /\ pc = "await"
    /\ \E r \in RssiValues : rfm_rssi' = Some(r)
    /\ attempts' = SetLastOutcome("Acknowledged")
    /\ attempts_remaining' = attempts_remaining - 1
    /\ result' = Some(TRUE)
    /\ pc' = IF attempts_remaining' = 0 THEN "return" ELSE "transmit"
    /\ UNCHANGED logger_state
    /\ UNCHANGED <<led, counter, last_rssi, main_locals, out>>

\* An acknowledgment arrives before the deadline: its signal strength is recorded
\* and the delivery returns at once.
AckArrives ==
    /\ pc = "await"
    /\ \E r \in RssiValues : rfm_rssi' = Some(r)
    /\ attempts' = SetLastOutcome("Acknowledged")
    /\ result' = Some(TRUE)
    /\ pc' = "return"
    /\ UNCHANGED logger_state
    /\ UNCHANGED <<led, counter, last_rssi, main_locals, out, attempts_remaining>>

\* The deadline elapses with no acknowledgment: one attempt is used up; the
\* delivery is exhausted when none remains, else the payload is sent again.
Deadline ==
    /\ pc = "await"
    /\ attempts' = SetLastOutcome("TimedOut")
    /\ attempts_remaining' = attempts_remaining - 1
    /\ IF attempts_remaining' = 0
       THEN result' = Some(FALSE) /\ pc' = "return"
       ELSE result' = result /\ pc' = "transmit"
    /\ UNCHANGED logger_state
    /\ UNCHANGED <<led, counter, last_rssi, main_locals, out, rfm_rssi>>

(* ---------------------------------------------------------------------- *)
(* The loop of src/main.py, after the call                                 *)
(* ---------------------------------------------------------------------- *)

\* AssignAck that takes any returned value for an acknowledgment.
AssignAckTruthy ==
    /\ pc = "return"
    /\ ack' = Some(TRUE)
    /\ pc' = "classify"
    /\ UNCHANGED logger_state
    /\ UNCHANGED <<led, counter, last_rssi, sensor_all, sensor_temperature,
                   sensor_pressure, sensor_humidity, altitude, msg, out, rfm_state>>

\* ack = <the value returned>
AssignAck ==
    /\ pc = "return"
    /\ ack' = result
    /\ pc' = "classify"
    /\ UNCHANGED logger_state
    /\ UNCHANGED <<led, counter, last_rssi, sensor_all, sensor_temperature,
                   sensor_pressure, sensor_humidity, altitude, msg, out, rfm_state>>

\* Propagate with a handler around the call that turns the exception into "no ack".
PropagateAbsorbed ==
    /\ pc = "raise"
    /\ ack' = Some(FALSE)
    /\ pc' = "classify"
    /\ UNCHANGED logger_state
    /\ UNCHANGED <<led, counter, last_rssi, sensor_all, sensor_temperature,
                   sensor_pressure, sensor_humidity, altitude, msg, out, rfm_state>>

\* No try statement encloses the call: an exception leaves the loop and ends the script.
Propagate ==
    /\ pc = "raise"
    /\ pc' = "crashed"
    /\ UNCHANGED logger_state
    /\ UNCHANGED <<led, counter, last_rssi, main_locals, out, rfm_state>>

\* StoreRssi with the assignment left out.
StoreRssiSkipped ==
    /\ pc = "classify"
    /\ Get(ack) = TRUE
    /\ pc' = "print_ack"
    /\ UNCHANGED logger_state
    /\ UNCHANGED <<led, counter, last_rssi, main_locals, out, rfm_state>>

\* StoreRssi that keeps the first RSSI ever seen.
StoreRssiKeepFirst ==
    /\ pc = "classify"
    /\ Get(ack) = TRUE
    /\ last_rssi' = IF last_rssi = None THEN rfm_rssi ELSE last_rssi
    /\ pc' = "print_ack"
    /\ UNCHANGED logger_state
    /\ UNCHANGED <<led, counter, main_locals, out, rfm_state>>

\* if ack: last_rssi = rfm.rssi
StoreRssi ==
    /\ pc = "classify"
    /\ Get(ack) = TRUE
    /\ last_rssi' = rfm_rssi
    /\ pc' = "print_ack"
    /\ UNCHANGED logger_state
    /\ UNCHANGED <<led, counter, main_locals, out, rfm_state>>

\* print("   +-> ACK received | RSSI (ACK): %3.1f dBm" % rfm.rssi)
PrintAck ==
    /\ pc = "print_ack"
    /\ out' = Append(out, [tag |-> "ACK received", text |-> FormatF(Get(rfm_rssi), 3, 3, 1)])
    /\ pc' = "increment"
    /\ UNCHANGED logger_state
    /\ UNCHANGED <<led, counter, last_rssi, main_locals, rfm_state>>

\* AckMissing with the print left out.
AckMissingSilent ==
    /\ pc = "classify"
    /\ Get(ack) = FALSE
    /\ pc' = "increment"
    /\ UNCHANGED logger_state
    /\ UNCHANGED <<led, counter, last_rssi, main_locals, out, rfm_state>>

\* AckMissing that also forgets the last RSSI.
AckMissingResets ==
    /\ pc = "classify"
    /\ Get(ack) = FALSE
    /\ last_rssi' = None
    /\ out' = Append(out, [tag |-> "ACK missing", text |-> <<>>])
    /\ pc' = "increment"
    /\ UNCHANGED logger_state
    /\ UNCHANGED <<led, counter, main_locals, rfm_state>>

\* AckMissing that gives up: the failure ends the script.
AckMissingHalts ==
    /\ pc = "classify"
    /\ Get(ack) = FALSE
    /\ out' = Append(out, [tag |-> "ACK missing", text |-> <<>>])
    /\ pc' = "crashed"
    /\ UNCHANGED logger_state
    /\ UNCHANGED <<led, counter, last_rssi, main_locals, rfm_state>>

\* else: print("   +-> ACK missing")
AckMissing ==
    /\ pc = "classify"
    /\ Get(ack) = FALSE
    /\ out' = Append(out, [tag |-> "ACK missing", text |-> <<>>])
    /\ pc' = "increment"
    /\ UNCHANGED logger_state
    /\ UNCHANGED <<led, counter, last_rssi, main_locals, rfm_state>>

\* Increment that starts the next cycle at once, without the pause.
IncrementNoPause ==
    /\ pc = "increment"
    /\ counter' = counter + 1
    /\ pc' = "loop"
    /\ UNCHANGED logger_state
    /\ UNCHANGED <<led, last_rssi, main_locals, out, rfm_state>>

\* Increment with the slip "count only the delivered messages".
IncrementOnAck ==
    /\ pc = "increment"
    /\ counter' = IF ack = Some(TRUE) THEN counter + 1 ELSE counter
    /\ pc' = "sleep"
    /\ UNCHANGED logger_state
    /\ UNCHANGED <<led, last_rssi, main_locals, out, rfm_state>>

\* counter += 1
Increment ==
    /\ pc = "increment"
    /\ counter' = counter + 1
    /\ pc' = "sleep"
    /\ UNCHANGED logger_state
    /\ UNCHANGED <<led, last_rssi, main_locals, out, rfm_state>>

\* time.sleep(0.1)
Sleep ==
    /\ pc = "sleep"
    /\ pc' = "loop"
    /\ UNCHANGED logger_state
    /\ UNCHANGED <<led, counter, last_rssi, main_locals, out, rfm_state>>

\* Every step of the program when each transport call returns.
Returning ==
    \/ LedToggle
    \/ ReadAll
    \/ ReadTemperature
    \/ ReadPressure
    \/ ReadHumidity
    \/ ComputeAltitude
    \/ EncodeMsg
    \/ PrintSend
    \/ SendWithAck
    \/ Transmit
    \/ AckArrives
    \/ Deadline
    \/ AssignAck
    \/ StoreRssi
    \/ PrintAck
    \/ AckMissing
    \/ Increment
    \/ Sleep

Next ==
    \/ Returning
    \/ TransportFault
    \/ Propagate

Spec == Init /\ [][Next]_vars

\* The program when each transport call returns: it never stops taking steps.
LiveSpec == Init /\ [][Returning]_vars /\ WF_vars(Returning)

(* ---------------------------------------------------------------------- *)
(* Reading the text the program produced                                  *)
(* ---------------------------------------------------------------------- *)

IsDigit(c) == \E i \in 1..10 : DigitChar[i] = c
DigitVal(c) == (CHOOSE i \in 1..10 : DigitChar[i] = c) - 1

\* Positions where a run of non-space characters starts.
TokStarts(s) == { i \in 1..Len(s) : s[i] # " " /\ (i = 1 \/ s[i - 1] = " ") }
TokEnd(s, i) ==
    CHOOSE j \in i..Len(s) :
        (\A k \in i..j : s[k] # " ") /\ (j = Len(s) \/ s[j + 1] = " ")
NthStart(s, k) ==
    CHOOSE i \in TokStarts(s) : Cardinality({ j \in TokStarts(s) : j < i }) = k - 1

\* The k-th run of non-space characters of s.
Field(s, k) == SubSeq(s, NthStart(s, k), TokEnd(s, NthStart(s, k)))

\* One leading space, six fields, exactly two spaces between fields, nothing after.
SixFields(s) ==
    /\ Len(s) >= 2
    /\ s[1] = " "
    /\ s[2] # " "
    /\ s[Len(s)] # " "
    /\ Cardinality(TokStarts(s)) = 6
    /\ \A i \in TokStarts(s) \ {2} :
          i > 3 /\ s[i - 1] = " " /\ s[i - 2] = " " /\ s[i - 3] # " "

Unsigned(f) == IF f # <<>> /\ f[1] = "-" THEN Tail(f) ELSE f

\* f is a number written with exactly d decimal places (d = 0: an integer).
IsDecimal(f, d) ==
    LET b == Unsigned(f)
        n == Len(b)
    IN  IF d = 0
        THEN n >= 1 /\ \A i \in 1..n : IsDigit(b[i])
        ELSE /\ n >= d + 2
             /\ b[n - d] = "."
             /\ \A i \in (1..n) \ {n - d} : IsDigit(b[i])

RECURSIVE DigitsValue(_)
DigitsValue(b) ==
    IF b = <<>> THEN 0
    ELSE 10 * DigitsValue(SubSeq(b, 1, Len(b) - 1)) + DigitVal(b[Len(b)])

\* The value of the number f, times 10^d (f written with d decimal places).
Scaled(f) ==
    LET b == SelectSeq(Unsigned(f), IsDigit)
    IN  IF f[1] = "-" THEN -DigitsValue(b) ELSE DigitsValue(b)

\* f, written with d decimal places, is v / 10^e rounded to d places (d <= e).
IsRounded(f, d, v, e) == 2 * Abs(Scaled(f) * Pow10(e - d) - v) <= Pow10(e - d)

SendLines == SelectSeq(out, LAMBDA l : l.tag = "Send:")
OutcomeLines == SelectSeq(out, LAMBDA l : l.tag # "Send:")

Zero1 == <<"0", ".", "0">>

\* From the encoding of msg up to the end of the delivery of that msg.
Encoded == pc \in {"print", "send", "transmit", "await", "return", "raise", "crashed", "classify"}

(* ---------------------------------------------------------------------- *)
(* Properties                                                             *)
(* ---------------------------------------------------------------------- *)

\* C1: the counter starts at 1 and grows by exactly 1 in every cycle whose delivery
\* completed, acknowledged or not: it is 1 plus the number of outcome lines printed
\* (less the one whose increment is still pending), and the payload just built in the
\* k-th cycle (k - 1 payloads were printed before it) carries sequence number k.
C1_SequencePerCycle ==
    /\ counter = 1 + Len(OutcomeLines) - (IF pc = "increment" THEN 1 ELSE 0)
    /\ pc = "print" =>
          /\ IsDecimal(Field(msg, 1), 0)
          /\ Scaled(Field(msg, 1)) = Len(SendLines) + 1

\* The second payload was built after a delivery that was not acknowledged.
C1_Witness ==
    /\ pc = "print"
    /\ Len(SendLines) = 1
    /\ out[Len(out)].tag = "ACK missing"
    /\ counter = 2

Delivering == pc \in {"send", "transmit", "await", "return"}
TimedOutAttempts == Cardinality({ i \in 1..Len(attempts) : attempts[i].outcome = "TimedOut" })
SomeAcknowledged == \E i \in 1..Len(attempts) : attempts[i].outcome = "Acknowledged"

\* C2: the step that follows an acknowledged delivery sets last_rssi to the RSSI the
\* transport recorded with that acknowledgment; while a delivery runs, and in the step
\* that follows an exhausted delivery, last_rssi keeps its value.
C2_LastRssiFollowsOutcome ==
    [][ /\ Delivering => last_rssi' = last_rssi
        /\ (pc = "classify" /\ ack = Some(TRUE)) => last_rssi' = rfm_rssi
        /\ (pc = "classify" /\ ack = Some(FALSE)) => last_rssi' = last_rssi ]_vars

\* An acknowledged delivery has just replaced an older, different RSSI.
C2_Witness ==
    /\ pc = "print_ack"
    /\ last_rssi = rfm_rssi
    /\ LastOutcome = "Acknowledged"
    /\ Field(msg, 2) # Zero1
    /\ Field(msg, 2) # FormatF(Get(last_rssi), 3, 3, 1)

\* The payloads the current delivery put on the air.
Transmissions == SelectSeq(attempts, LAMBDA a : a.outcome # "Fault")

\* C3: one delivery makes at most max_retries + 1 transmissions, and at least 1 by the
\* time it returns; with ack_retries = 2 there is never a 4th.
C3_AttemptsBounded ==
    /\ Len(Transmissions) <= ack_retries + 1
    /\ Len(Transmissions) < 4
    /\ pc \in {"await", "return"} => Len(Transmissions) >= 1

\* A delivery ended after three transmissions.
C3_Witness ==
    /\ pc = "return"
    /\ Len(Transmissions) = 3

\* C4: an acknowledged attempt is the last attempt of its delivery: the delivery has
\* returned success and no transmission follows it, even with attempts remaining.
C4_NoSendAfterAck ==
    \A i \in 1..Len(attempts) :
        attempts[i].outcome = "Acknowledged" =>
            /\ i = Len(attempts)
            /\ pc \notin {"transmit", "await"}
            /\ result = Some(TRUE)

\* The first attempt was acknowledged with two attempts still remaining.
C4_Witness ==
    /\ pc = "return"
    /\ attempts # <<>>
    /\ attempts[1].outcome = "Acknowledged"
    /\ attempts_remaining = ack_retries + 1

C6_AllFailuresAbsorbed ==
    /\ pc # "crashed"
    /\ (pc = "classify" /\ ~SomeAcknowledged) => ack = Some(FALSE)

\* C6, amended: a delivery whose attempts all timed out becomes the outcome "not
\* acknowledged" and the loop goes on; the loop stops exactly when the send operation
\* itself raised a fault, which nothing handles.
C6_TimeoutsAbsorbedFaultsFatal ==
    /\ pc \in {"raise", "crashed"} <=> LastOutcome = "Fault"
    /\ (pc = "classify" /\ ~SomeAcknowledged) =>
          ack = Some(FALSE) /\ TimedOutAttempts = ack_retries + 1

\* The script has ended on a fault of the second send of a payload.
C6_Witness ==
    /\ pc = "crashed"
    /\ Len(attempts) = 2
    /\ attempts[1].outcome = "TimedOut"
    /\ attempts[2].outcome = "Fault"

\* C7: when every transport call returns, every delivery returns, an exhausted
\* delivery is followed by the start of the cycle with the next sequence number, and
\* the sequence reaches every number up to the bound.
C7_SchedulerGoesOn ==
    /\ \A n \in 1..(MaxCycles + 1) : <>(counter = n)
    /\ (pc \in {"transmit", "await"}) ~> (pc = "classify" /\ ack \in {Some(TRUE), Some(FALSE)})
    /\ \A n \in 1..(MaxCycles - 1) :
          (pc = "classify" /\ ack = Some(FALSE) /\ counter = n)
              ~> (pc = "read_all" /\ counter = n + 1)

\* The last sequence number was reached although no delivery was ever acknowledged.
C7_Witness ==
    /\ counter = MaxCycles + 1
    /\ Len(OutcomeLines) = MaxCycles
    /\ \A i \in 1..Len(out) : out[i].tag # "ACK received"

\* The number of decimal places of the six fields, as the format string has them.
Places == <<0, 1, 2, 2, 2, 6>>

\* The layout of msg with the six fields written with the decimal places dp, the
\* fields being, in order, the values the payload was encoded from.
Layout(dp) ==
    /\ SixFields(msg)
    /\ \A k \in 1..6 : IsDecimal(Field(msg, k), dp[k])
    /\ Scaled(Field(msg, 1)) = counter
    /\ IF last_rssi = None
       THEN Field(msg, 2) = Zero1
       ELSE IsRounded(Field(msg, 2), dp[2], Get(last_rssi), 3)
    /\ IsRounded(Field(msg, 3), dp[3], Get(sensor_temperature), 3)
    /\ IsRounded(Field(msg, 4), dp[4], Get(sensor_pressure), 3)
    /\ IsRounded(Field(msg, 5), dp[5], Get(sensor_humidity), 3)
    /\ IsRounded(Field(msg, 6), dp[6], (baseline - Get(sensor_pressure)) * 8300, 6)

RECURSIVE LastAckText(_)
LastAckText(n) ==
    IF n = 0 THEN Zero1
    ELSE IF out[n].tag = "ACK received" THEN out[n].text
    ELSE LastAckText(n - 1)

\* C9: the RSSI field of the payload built in a cycle is the RSSI of the most recent
\* acknowledged delivery of the cycles before it, 0.0 if there is none; the RSSI of the
\* cycle's own acknowledgment is stored only after the payload was printed and sent.
C9_RssiLagsOneCycle ==
    /\ Encoded => Field(msg, 2) = LastAckText(Len(out))
    /\ pc = "print_ack" =>
          /\ out[Len(out)] = [tag |-> "Send:", text |-> msg]
          /\ attempts[Len(attempts)].payload = msg
          /\ Field(msg, 2) = LastAckText(Len(out))

\* The second delivery was acknowledged with another RSSI than the one its payload carries,
\* which is the RSSI of the first.
C9_Witness ==
    /\ pc = "print_ack"
    /\ Len(out) = 3
    /\ out[2].tag = "ACK received"
    /\ Field(msg, 2) = out[2].text
    /\ Field(msg, 2) # FormatF(Get(rfm_rssi), 3, 3, 1)

\* C10: last_rssi changes only in the step that follows an acknowledged delivery, and
\* once it holds a value it never is None again.
C10_LastRssiOnlyOnAck ==
    [][ /\ last_rssi' # last_rssi =>
              pc = "classify" /\ ack = Some(TRUE) /\ LastOutcome = "Acknowledged"
        /\ last_rssi # None => last_rssi' # None ]_vars

\* A delivery failed after an acknowledged one, and last_rssi still holds its value.
C10_Witness ==
    /\ pc = "increment"
    /\ ack = Some(FALSE)
    /\ last_rssi # None
    /\ out[2].tag = "ACK received"

\* The steps of one cycle in the order of the loop body: sample, encode, deliver,
\* pause; a fault leaves the loop.
StepOrder ==
    { <<"loop", "read_all">>, <<"read_all", "read_temperature">>,
      <<"read_temperature", "read_pressure">>, <<"read_pressure", "read_humidity">>,
      <<"read_humidity", "altitude">>, <<"altitude", "encode">>, <<"encode", "print">>,
      <<"print", "send">>, <<"send", "transmit">>, <<"transmit", "await">>,
      <<"await", "transmit">>, <<"await", "return">>, <<"return", "classify">>,
      <<"classify", "print_ack">>, <<"classify", "increment">>,
      <<"print_ack", "increment">>, <<"increment", "sleep">>, <<"sleep", "loop">>,
      <<"transmit", "raise">>, <<"raise", "crashed">> }

Sampling == pc \in {"read_all", "read_temperature", "read_pressure", "read_humidity",
                    "altitude", "encode", "print"}

\* C11: at most one delivery is in flight: while a cycle samples or encodes, every
\* payload printed before has its outcome line and no attempt is pending, so the
\* delivery of the cycle before has completed; never are two payloads without an
\* outcome; and the steps of a cycle follow one another in the order sample, encode,
\* deliver, pause.
C11_OneDeliveryAtATime ==
    /\ [](/\ Len(SendLines) - Len(OutcomeLines) \in {0, 1}
          /\ Sampling =>
                /\ Len(SendLines) = Len(OutcomeLines)
                /\ counter = Len(OutcomeLines) + 1
                /\ LastOutcome \in {"None", "Acknowledged", "TimedOut"}
                /\ LastOutcome = "TimedOut" => attempts_remaining = 0)
    /\ [][\E e \in StepOrder : e[1] = pc /\ e[2] = pc']_vars

\* The second cycle samples after the first delivery was exhausted.
C11_Witness ==
    /\ pc = "read_temperature"
    /\ counter = 2
    /\ Len(OutcomeLines) = 1
    /\ LastOutcome = "TimedOut"

RetryKeepsInputs ==
    (pc \in {"transmit", "await"}) =>
        UNCHANGED <<counter, last_rssi, sensor_all, sensor_temperature,
                    sensor_pressure, sensor_humidity, altitude, msg, out>>

\* C13: every transmission of a delivery carries the payload that was printed for the
\* cycle, and from the first attempt to the return of the delivery the counter,
\* last_rssi, the readings and msg do not change, so msg still is the encoding of them.
C13_SamePayloadOnRetries ==
    /\ [](pc \in {"transmit", "await", "return", "classify"} =>
            /\ \A i \in 1..Len(attempts) :
                  attempts[i].payload = msg /\ attempts[i].payload = out[Len(out)].text
            /\ Layout(Places))
    /\ [][RetryKeepsInputs]_vars

\* A payload was transmitted three times.
C13_Witness ==
    /\ pc = "await"
    /\ Len(attempts) = 3
    /\ attempts[1].payload = attempts[3].payload
    /\ attempts[3].outcome = "Pending"

(* ---------------------------------------------------------------------- *)
(* The Logger of src/test_tobias.py                                       *)
(*                                                                        *)
(* logs_files maps each file name of the directory to the file's content, *)
(* a sequence of characters.  loggers holds the Logger objects in the     *)
(* order of their construction; the field file of one is the text its     *)
(* open handle has accepted and not yet written to the file.  calls is    *)
(* the sequence of the calls made on the Loggers, with their arguments    *)
(* and the value time.ticks_ms() returned to them.                        *)
(* ---------------------------------------------------------------------- *)

\* Number of Logger objects the model constructs.
MaxLoggers == 2

\* Number of add_info_line, add_error_line and force_saving calls the model makes.
MaxCalls == 2

\* MAX_LOG_TYPE_LEN = 7
MAX_LOG_TYPE_LEN == 7

main_state == <<pc, led, counter, last_rssi, main_locals, out, rfm_state>>

NL == "\n"

\* f"logs_files/log_{self.log_file_number}.txt", without the directory
LogFileName(n) == <<"l", "o", "g", "_">> \o FormatD(n) \o <<".", "t", "x", "t">>

OtherFileName == <<"n", "o", "t", "e", "s", ".", "t", "x", "t">>

\* "=== LOGS STARTED (v0.1) ===\n"
Header == <<"=", "=", "=", " ", "L", "O", "G", "S", " ", "S", "T", "A", "R", "T", "E", "D", " ", "(", "v", "0", ".", "1", ")", " ", "=", "=", "=">> \o <<NL>>

\* A log file left by an earlier run.
EarlierLog == Header \o <<"[", "0", "0", ":", "0", "0", ":", "0", "1", ".", "0", "0", "0", "]", " ", " ", "[", "I", "N", "F", "O", "]", " ", " ", " ", " ", " ", "f", "l", "i", "g", "h", "t", " ", "1">> \o <<NL>>

\* The directory before the first construction: empty, one earlier log, an earlier
\* log whose predecessor was removed, an earlier log beside a file of another kind.
InitialDirectories ==
    { <<>>,
      LogFileName(0) :> EarlierLog,
      LogFileName(1) :> EarlierLog,
      (OtherFileName :> <<"x">>) @@ (LogFileName(0) :> EarlierLog) }

\* The texts handed to add_info_line and add_error_line.
Texts == { <<" ", "s", "o", "m", "e", " ", "t", "e", "x", "t", " ", "a", "n", "d", " ", "0", " ">>, <<"l", "o", "s", "t", "\n", "l", "i", "n", "k">> }

\* What time.ticks_ms() can return: 00:00:15.750 and 01:32:55.970.
TicksValues == { 15750, 5575970 }

Whitespace == {" ", NL, "\t"}

\* str.strip()
RECURSIVE LStrip(_)
LStrip(t) == IF t # <<>> /\ Head(t) \in Whitespace THEN LStrip(Tail(t)) ELSE t

RECURSIVE RStrip(_)
RStrip(t) ==
    IF t # <<>> /\ t[Len(t)] \in Whitespace THEN RStrip(SubSeq(t, 1, Len(t) - 1)) ELSE t

Strip(t) == RStrip(LStrip(t))

LowerCase == <<"a", "b", "c", "d", "e", "f", "g", "h", "i", "j", "k", "l", "m", "n", "o", "p", "q", "r", "s", "t", "u", "v", "w", "x", "y", "z">>
UpperCase == <<"A", "B", "C", "D", "E", "F", "G", "H", "I", "J", "K", "L", "M", "N", "O", "P", "Q", "R", "S", "T", "U", "V", "W", "X", "Y", "Z">>

\* str.upper()
Upper(t) ==
    [i \in 1..Len(t) |->
        IF \E k \in 1..Len(LowerCase) : LowerCase[k] = t[i]
        THEN UpperCase[CHOOSE k \in 1..Len(LowerCase) : LowerCase[k] = t[i]]
        ELSE t[i]]

\* f"{n:0<w>d}" for n >= 0
FormatZeroPadded(n, w) == PadLeft(NatDigits(n), "0", w)

_get_time_HH_MM_SS_mmm(ticks_ms, bias_ms) ==
    LET current_ms    == ticks_ms + bias_ms
        total_ms      == current_ms
        total_seconds == total_ms \div 1000
        milliseconds  == total_ms % 1000
        hours         == total_seconds \div 3600
        minutes       == (total_seconds % 3600) \div 60
        seconds       == total_seconds % 60
    IN  FormatZeroPadded(hours, 2) \o <<":">> \o FormatZeroPadded(minutes, 2) \o <<":">>
            \o FormatZeroPadded(seconds, 2) \o <<".">> \o FormatZeroPadded(milliseconds, 3)

\* The text _add_line writes: f"{final_string}\n"
FinalString(line_type, details, ticks_ms) ==
    LET actual_time == _get_time_HH_MM_SS_mmm(ticks_ms, 0)
        bracketed   == <<"[">> \o Strip(Upper(line_type)) \o <<"]">>
        type_string == bracketed \o Repeat(" ", MAX_LOG_TYPE_LEN - Len(bracketed) + 4)
    IN  <<"[">> \o actual_time \o <<"]", " ", " ">> \o type_string \o Strip(details) \o <<NL>>

\* Everything the handle has accepted reaches the file, at its end (mode "a").
Written(i) ==
    [logs_files EXCEPT ![loggers[i].log_file_path] = @ \o loggers[i].file]

\* The state before the first Logger is constructed.
LoggerInit ==
    /\ MainInit
    /\ logs_files \in InitialDirectories
    /\ loggers = <<>>
    /\ calls = <<>>

\* logger = Logger()
Logger__init__ ==
    /\ Len(loggers) < MaxLoggers
    /\ LET logs_files_list == DOMAIN logs_files
           log_file_number == Cardinality(logs_files_list)
           log_file_path   == LogFileName(log_file_number)
       IN  /\ logs_files' = (log_file_path :> Header) @@ logs_files
           /\ loggers' = Append(loggers, [log_file_number |-> log_file_number,
                                          log_file_path   |-> log_file_path,
                                          file            |-> <<>>])
    /\ UNCHANGED calls
    /\ UNCHANGED main_state

\* self.file.write(f"{final_string}\n"): the handle keeps the text, or writes what it
\* holds to the file at once.
_add_line(i, op, line_type, details) ==
    /\ Len(calls) < MaxCalls
    /\ \E ticks_ms \in TicksValues, through \in BOOLEAN :
          LET accepted == loggers[i].file \o FinalString(line_type, details, ticks_ms)
          IN  /\ IF through
                 THEN /\ logs_files' = [logs_files EXCEPT ![loggers[i].log_file_path] = @ \o accepted]
                      /\ loggers' = [loggers EXCEPT ![i].file = <<>>]
                 ELSE /\ loggers' = [loggers EXCEPT ![i].file = accepted]
                      /\ UNCHANGED logs_files
              /\ calls' = Append(calls, [self |-> i, op |-> op, text |-> details,
                                         ticks_ms |-> ticks_ms])
    /\ UNCHANGED main_state

add_info_line ==
    \E i \in 1..Len(loggers), text \in Texts : _add_line(i, "add_info_line", <<"I", "N", "F", "O">>, text)

add_error_line ==
    \E i \in 1..Len(loggers), text \in Texts : _add_line(i, "add_error_line", <<"E", "R", "R", "O", "R">>, text)

\* self.file.close(); self.file = open(self.log_file_path, "a")
force_saving ==
    /\ Len(calls) < MaxCalls
    /\ \E i \in 1..Len(loggers) :
          /\ logs_files' = Written(i)
          /\ loggers' = [loggers EXCEPT ![i].file = <<>>]
          /\ calls' = Append(calls, [self |-> i, op |-> "force_saving", text |-> <<>>,
                                     ticks_ms |-> 0])
    /\ UNCHANGED main_state

LoggerNext ==
    \/ Logger__init__
    \/ add_info_line
    \/ add_error_line
    \/ force_saving

LoggerSpec == LoggerInit /\ [][LoggerNext]_vars

\* C14: temperature, pressure, humidity and altitude of one message come from one
\* single read of the sampler: some reading has all the values the payload was
\* encoded from.
C14_OneSamplerRead ==
    pc = "print" =>
        \E r \in Readings :
            msg = Encode(counter, last_rssi, r[1], r[2], r[3], Altitude(r[2]))

\* The last line printed reports the outcome of the delivery that has just returned,
\* with the RSSI stored into last_rssi when it was acknowledged.
OutcomeReported ==
    LET l == out[Len(out)]
    IN  /\ l.tag \in {"ACK received", "ACK missing"}
        /\ l.tag = "ACK received" <=> SomeAcknowledged
        /\ l.tag = "ACK missing" <=> TimedOutAttempts = ack_retries + 1
        /\ l.tag = "ACK received" => l.text = FormatF(Get(last_rssi), 3, 3, 1)

\* C15 as stated: each cycle emits one line, which reports the payload and the outcome.
C15_OneLinePerCycle ==
    pc = "increment" => Len(out) = counter /\ OutcomeReported

\* C15, amended: each completed cycle emits two lines, the payload before the delivery
\* and the outcome after it; the outcome line is "ACK received" with the RSSI stored
\* into last_rssi exactly when the delivery was acknowledged and "ACK missing" exactly
\* when it was exhausted; once the payload is printed the delivery is called with it.
C15_TwoLinesPerCycle ==
    /\ pc = "increment" =>
          /\ Len(out) = 2 * counter
          /\ out[Len(out) - 1] = [tag |-> "Send:", text |-> msg]
          /\ OutcomeReported
    /\ pc = "send" =>
          /\ Len(out) = 2 * counter - 1
          /\ out[Len(out)] = [tag |-> "Send:", text |-> msg]
          /\ ENABLED SendWithAck

\* The second cycle reported an acknowledgment after the first reported none.
C15_Witness ==
    /\ pc = "increment"
    /\ Len(out) = 4
    /\ out[2].tag = "ACK missing"
    /\ out[4].tag = "ACK received"

\* A Logger was constructed in this step: it opened log_<n>.txt, n the number of
\* entries of the directory, no file of that name was there, and every file that
\* was there has kept its content.
ConstructionOpensNewFile ==
    Len(loggers') = Len(loggers) + 1 =>
        LET opened == loggers'[Len(loggers')]
        IN  /\ opened.log_file_number = Cardinality(DOMAIN logs_files)
            /\ opened.log_file_path = LogFileName(opened.log_file_number)
            /\ opened.log_file_path \notin DOMAIN logs_files
            /\ \A f \in DOMAIN logs_files : logs_files'[f] = logs_files[f]

\* C16: whatever the directory held at first, each construction of a Logger opens
\* log_<n>.txt, n being the number of entries at that moment, under a name that was
\* not present, so no construction truncates a log file written earlier.
C16_ConstructionNeverTruncates == [][ConstructionOpensNewFile]_vars

\* The positions of the line breaks of a text.
Breaks(t) == { i \in 1..Len(t) : t[i] = NL }

\* The position of the k-th line break of t; 0 for k = 0.
NthBreak(t, k) ==
    IF k = 0 THEN 0
    ELSE CHOOSE i \in Breaks(t) : Cardinality({ j \in Breaks(t) : j < i }) = k - 1

\* The lines of a text that ends with a line break, without their line breaks.
SplitLines(t) ==
    [k \in 1..Cardinality(Breaks(t)) |->
        SubSeq(t, NthBreak(t, k - 1) + 1, NthBreak(t, k) - 1)]

\* The log of Logger i: its file and what its handle still holds.
Log(i) == logs_files[loggers[i].log_file_path] \o loggers[i].file

\* The add_info_line and add_error_line calls made on Logger i, in call order.
AddCalls(i) == SelectSeq(calls, LAMBDA c : c.self = i /\ c.op # "force_saving")

\* What one add call is to write.
Entry(c) ==
    FinalString(IF c.op = "add_info_line" THEN <<"I", "N", "F", "O">>
                ELSE <<"E", "R", "R", "O", "R">>, c.text, c.ticks_ms)

RECURSIVE Entries(_)
Entries(cs) == IF cs = <<>> THEN <<>> ELSE Entry(Head(cs)) \o Entries(Tail(cs))

\* No other Logger was constructed on the file of Logger i.
OnlyLoggerOfItsFile(i) ==
    \A j \in 1..Len(loggers) :
        j # i => loggers[j].log_file_path # loggers[i].log_file_path

\* C17: after any add_info_line, add_error_line and force_saving calls on one Logger
\* its log is the header line followed by exactly one line per add call, in call
\* order, and force_saving leaves every line in the file.
C17_OneLinePerAddCall ==
    \A i \in 1..Len(loggers) :
        OnlyLoggerOfItsFile(i) =>
            LET lines == SplitLines(Log(i))
                adds  == AddCalls(i)
            IN  /\ Log(i)[Len(Log(i))] = NL
                /\ Len(lines) = 1 + Len(adds)
                /\ lines[1] \o <<NL>> = Header
                /\ \A k \in 1..Len(adds) : lines[k + 1] \o <<NL>> = Entry(adds[k])
                /\ (calls # <<>> /\ calls[Len(calls)].op = "force_saving"
                                 /\ calls[Len(calls)].self = i)
                       => loggers[i].file = <<>>

\* What does hold of the same calls: the log is the header followed by the text of
\* each add call, in call order, and is in the file after force_saving.
LogHoldsEveryEntry ==
    \A i \in 1..Len(loggers) :
        OnlyLoggerOfItsFile(i) =>
            /\ Log(i) = Header \o Entries(AddCalls(i))
            /\ (calls # <<>> /\ calls[Len(calls)].op = "force_saving"
                             /\ calls[Len(calls)].self = i)
                   => logs_files[loggers[i].log_file_path] = Log(i)

====
